---- MODULE Spec2Model ----
(***************************************************************************)
(* M-Pesa QR generator: the CRC16-CCITT checksum (src/src/utils/crc16.ts)  *)
(* and the payload builder with its form (src/src/App.tsx).                *)
(*                                                                         *)
(* A JavaScript string is modelled as the sequence of its UTF-16 code      *)
(* units (natural numbers below 65536): "6304" is <<54, 51, 48, 52>>.      *)
(* The empty string is <<>>.                                               *)
(***************************************************************************)
EXTENDS Integers, Sequences, FiniteSets, TLC

VARIABLES
    paymentType,     \* useState<PaymentType>, App.tsx:9
    number,          \* useState(''), App.tsx:10
    accountNumber,   \* useState(''), App.tsx:11
    businessName,    \* useState(''), App.tsx:12
    error,           \* useState<string | null>, App.tsx:13
    formattedNumber, \* local of generateQRValue, App.tsx:52 (last call)
    merchantInfo,    \* local of generateQRValue, App.tsx:62 (last call)
    qrValue,         \* const qrValue = generateQRValue(), App.tsx:175
    shouldShowQR,    \* const shouldShowQR, App.tsx:174
    qrShown,         \* the <QRCodeSVG> branch of App.tsx:290 is rendered
    placeholder,     \* text of the <p> of App.tsx:300 (null when the QR is shown)
    disabled,        \* disabled attribute of both buttons, App.tsx:308, 318
    lastEvent,       \* the form event handled last, with its outward effect
    str,             \* crc16ccitt: parameter str
    i,               \* crc16ccitt: loop index i
    crc,             \* crc16ccitt: register crc
    result,          \* crc16ccitt: returned string (meaningful when pc = "done")
    pc               \* position: "ui", "input"/"returned", "loop"/"done"

formVars == <<paymentType, number, accountNumber, businessName, error>>
genVars == <<formattedNumber, merchantInfo, qrValue>>
viewVars == <<shouldShowQR, qrShown, placeholder, disabled, lastEvent>>
crcVars == <<str, i, crc, result>>
vars == <<formVars, genVars, viewVars, crcVars, pc>>

null == "null"

(***************************************************************************)
(* Bounds of the model.                                                    *)
(***************************************************************************)
MaxTail == 9      \* digits appended to a prefix when enumerating number inputs
LongLen == 100    \* length of the longest account number / business name
MaxCrcLen == 3    \* longest string fed to the stepwise crc16ccitt

(***************************************************************************)
(* String helpers (JavaScript String methods on code-unit sequences).      *)
(***************************************************************************)
IsDigit(c) == c \in 48..57

\* value.replace(/[^\d]/g, '')
stripNonDigits(value) == SelectSeq(value, IsDigit)

\* String.prototype.startsWith
startsWith(s, p) == Len(s) >= Len(p) /\ SubSeq(s, 1, Len(p)) = p

\* String.prototype.slice(k) for 0 <= k
slice(s, k) == SubSeq(s, k + 1, Len(s))

\* /^\d{lo,hi}$/.test(s)
testDigits(s, lo, hi) ==
    /\ Len(s) >= lo
    /\ Len(s) <= hi
    /\ \A k \in 1..Len(s) : IsDigit(s[k])

RECURSIVE toStringDec(_)
\* Number.prototype.toString() of a non-negative integer
toStringDec(n) ==
    IF n < 10 THEN <<48 + n>> ELSE Append(toStringDec(n \div 10), 48 + (n % 10))

\* String.prototype.padStart(width, pad) with a one-character pad
padStart(s, width, pad) ==
    IF Len(s) >= width THEN s ELSE [k \in 1..(width - Len(s)) |-> pad] \o s

(***************************************************************************)
(* crc16.ts: CRC16-CCITT, initial value 0xFFFF, polynomial 0x1021.         *)
(***************************************************************************)
polynomial == 4129      \* 0x1021
crcInit == 65535        \* 0xFFFF

RECURSIVE bitXorSlow(_, _)
\* a ^ b, one bit at a time
bitXorSlow(a, b) ==
    IF a = 0 THEN b
    ELSE IF b = 0 THEN a
    ELSE ((a + b) % 2) + 2 * bitXorSlow(a \div 2, b \div 2)

\* a ^ b for a, b in 0..15, tabulated
xorTable == [a \in 0..15 |-> [b \in 0..15 |-> bitXorSlow(a, b)]]

RECURSIVE bitXor(_, _)
\* JavaScript a ^ b on non-negative operands below 2^31, four bits at a time
bitXor(a, b) ==
    IF a = 0 THEN b
    ELSE IF b = 0 THEN a
    ELSE xorTable[a % 16][b % 16] + 16 * bitXor(a \div 16, b \div 16)

\* crc & 0x8000 is non-zero
topBitSet(c) == (c \div 32768) % 2 = 1

\* bitStep without the mask of line 14.
bitStep_unmasked(c) ==
    IF topBitSet(c) THEN bitXor(c * 2, polynomial) ELSE c * 2

\* One pass of the inner loop, lines 9-14: shift, conditional xor, mask.
bitStep(c) ==
    IF topBitSet(c) THEN bitXor(c * 2, polynomial) % 65536 ELSE (c * 2) % 65536

\* One pass of the outer loop, lines 7-15, for the code unit `code`.
charStep(c, code) ==
    bitStep(bitStep(bitStep(bitStep(
    bitStep(bitStep(bitStep(bitStep(bitXor(c, code * 256)))))))))

RECURSIVE crcLoop(_, _, _, _)
\* The register after the outer loop, lines 6-16, has processed s[lo..hi]
\* in order, starting from c. The range is halved, and c is compared first
\* so that it is computed before the rest of the range, to keep the
\* evaluation shallow; the characters are still folded left to right.
crcLoop(s, lo, hi, c) ==
    IF c < 0 \/ lo > hi THEN c
    ELSE IF lo = hi THEN charStep(c, s[lo])
    ELSE LET mid == (lo + hi) \div 2 IN
         crcLoop(s, mid + 1, hi, crcLoop(s, lo, mid, c))

\* One lower-case hexadecimal digit
hexDigit(d) == IF d < 10 THEN 48 + d ELSE 87 + d

RECURSIVE toString16(_)
\* Number.prototype.toString(16) of a non-negative integer
toString16(n) ==
    IF n < 16 THEN <<hexDigit(n)>>
    ELSE Append(toString16(n \div 16), hexDigit(n % 16))

\* String.prototype.toUpperCase on ASCII letters
toUpperCase(s) ==
    [k \in 1..Len(s) |-> IF s[k] \in 97..122 THEN s[k] - 32 ELSE s[k]]

\* line 18: crc.toString(16).toUpperCase().padStart(4, '0')
formatCrc(c) == padStart(toUpperCase(toString16(c)), 4, 48)

\* crc16ccitt(str), lines 2-19
crc16ccitt(s) == formatCrc(crcLoop(s, 1, Len(s), crcInit))

(***************************************************************************)
(* App.tsx: validation, normalisation and the payload builder.             *)
(***************************************************************************)
PaymentTypes == {"paybill", "till", "phone"}

\* validateNumber with the trunk form tested as /^0\d{9}$/.
validateNumber_trunkUnchecked(type, value) ==
    IF value = <<>> THEN FALSE
    ELSE LET cleaned == stripNonDigits(value) IN
         CASE type = "paybill" -> testDigits(cleaned, 6, 6)
           [] type = "till" -> testDigits(cleaned, 5, 6)
           [] type = "phone" ->
                IF startsWith(cleaned, <<50, 53, 52>>)
                THEN /\ startsWith(cleaned, <<50, 53, 52, 55>>)
                     /\ testDigits(slice(cleaned, 4), 8, 8)
                ELSE IF startsWith(cleaned, <<48>>)
                THEN testDigits(slice(cleaned, 1), 9, 9)
                ELSE /\ startsWith(cleaned, <<55>>)
                     /\ testDigits(slice(cleaned, 1), 8, 8)
           [] OTHER -> FALSE

\* validateNumber, lines 16-36
validateNumber(type, value) ==
    IF value = <<>> THEN FALSE
    ELSE LET cleaned == stripNonDigits(value) IN
         CASE type = "paybill" -> testDigits(cleaned, 6, 6)
           [] type = "till" -> testDigits(cleaned, 5, 6)
           [] type = "phone" ->
                IF startsWith(cleaned, <<50, 53, 52>>)
                THEN /\ startsWith(cleaned, <<50, 53, 52, 55>>)
                     /\ testDigits(slice(cleaned, 4), 8, 8)
                ELSE IF startsWith(cleaned, <<48>>)
                THEN /\ startsWith(cleaned, <<48, 55>>)
                     /\ testDigits(slice(cleaned, 2), 8, 8)
                ELSE /\ startsWith(cleaned, <<55>>)
                     /\ testDigits(slice(cleaned, 1), 8, 8)
           [] OTHER -> FALSE

\* formatNumber that prepends '254' without dropping the trunk '0'.
formatNumber_keepsTrunkZero(type, value) ==
    LET cleaned == stripNonDigits(value) IN
    IF type = "phone"
    THEN IF startsWith(cleaned, <<50, 53, 52>>) THEN cleaned
         ELSE IF startsWith(cleaned, <<48>>) THEN <<50, 53, 52>> \o cleaned
         ELSE IF Len(cleaned) = 9 THEN <<50, 53, 52>> \o cleaned
         ELSE cleaned
    ELSE cleaned

\* formatNumber, lines 38-46
formatNumber(type, value) ==
    LET cleaned == stripNonDigits(value) IN
    IF type = "phone"
    THEN IF startsWith(cleaned, <<50, 53, 52>>) THEN cleaned
         ELSE IF startsWith(cleaned, <<48>>) THEN <<50, 53, 52>> \o slice(cleaned, 1)
         ELSE IF Len(cleaned) = 9 THEN <<50, 53, 52>> \o cleaned
         ELSE cleaned
    ELSE cleaned

\* x.length.toString().padStart(2, '0'), lines 66, 68, 71, 73, 76, 86
lengthField(x) == padStart(toStringDec(Len(x)), 2, 48)

\* '00' + '14' + 'A000000677010111', line 63
guidField ==
    <<48, 48>> \o <<49, 52>>
    \o <<65, 48, 48, 48, 48, 48, 48, 54, 55, 55, 48, 49, 48, 49, 49, 49>>

\* buildMerchantInfo that appends the account field for every type.
buildMerchantInfo_accountForAll(type, fmt, account) ==
    guidField
    \o (IF type = "paybill" THEN <<48, 49>>
        ELSE IF type = "till" THEN <<48, 51>> ELSE <<48, 52>>)
    \o lengthField(fmt) \o fmt
    \o (IF account # <<>>
        THEN <<48, 50>> \o lengthField(account) \o account
        ELSE <<>>)

\* The merchantInfo local, lines 62-74, for the formatted number `fmt`.
buildMerchantInfo(type, fmt, account) ==
    IF type = "paybill"
    THEN guidField \o <<48, 49>> \o lengthField(fmt) \o fmt
         \o (IF account # <<>>
             THEN <<48, 50>> \o lengthField(account) \o account
             ELSE <<>>)
    ELSE IF type = "till"
    THEN guidField \o <<48, 51>> \o lengthField(fmt) \o fmt
    ELSE guidField \o <<48, 52>> \o lengthField(fmt) \o fmt

\* buildBody that gives the Point of Initiation Method the value '11'.
buildBody_initiationValue(type, fmt, account, business) ==
    LET mi == buildMerchantInfo(type, fmt, account) IN
    <<48, 48, 48, 50, 48, 49>>
    \o <<48, 49, 48, 50, 49, 49>>
    \o <<50, 54>> \o lengthField(mi) \o mi
    \o <<53, 51, 48, 51, 75, 69, 83>>
    \o <<53, 56, 48, 50, 75, 69>>
    \o (IF business # <<>>
        THEN <<53, 57>> \o lengthField(business) \o business
        ELSE <<>>)

\* qrText as it stands after line 87, before the CRC header is appended.
buildBody(type, fmt, account, business) ==
    LET mi == buildMerchantInfo(type, fmt, account) IN
    <<48, 48, 48, 50, 48, 49>>                     \* '000201', line 58
    \o <<48, 49, 48, 50>>                          \* '0102', line 59
    \o <<50, 54>> \o lengthField(mi) \o mi         \* line 76
    \o <<53, 51, 48, 51, 75, 69, 83>>              \* '5303KES', line 79
    \o <<53, 56, 48, 50, 75, 69>>                  \* '5802KE', line 82
    \o (IF business # <<>>
        THEN <<53, 57>> \o lengthField(business) \o business
        ELSE <<>>)                                 \* lines 85-87

\* generateQRValue that computes the checksum before appending '6304'.
generateQRValue_crcBeforeHeader(type, num, account, business) ==
    IF num = <<>> THEN <<>>
    ELSE IF ~validateNumber(type, num) THEN <<>>
    ELSE LET qrText == buildBody(type, formatNumber(type, num), account, business)
         IN qrText \o <<54, 51, 48, 52>> \o crc16ccitt(qrText)

\* generateQRValue, lines 48-103. Nothing in the try block throws, so the
\* catch clauses never run.
generateQRValue(type, num, account, business) ==
    IF num = <<>> THEN <<>>
    ELSE IF ~validateNumber(type, num) THEN <<>>
    ELSE LET qrText == buildBody(type, formatNumber(type, num), account, business)
                       \o <<54, 51, 48, 52>>       \* '6304', line 90
         IN qrText \o crc16ccitt(qrText)           \* lines 91-94

\* What a call of generateQRValue leaves in its locals and returns.
generate(type, num, account, business) ==
    /\ formattedNumber' = IF num = <<>> THEN <<>> ELSE formatNumber(type, num)
    /\ merchantInfo' =
         IF num # <<>> /\ validateNumber(type, num)
         THEN buildMerchantInfo(type, formatNumber(type, num), account)
         ELSE <<>>
    /\ qrValue' = generateQRValue(type, num, account, business)

(***************************************************************************)
(* Inputs the form fields are given.                                       *)
(***************************************************************************)
\* n copies of the code unit c
fill(c, n) == [k \in 1..n |-> c]

\* The digits "1234567890123..." cut to length n
tailDigits(n) == [k \in 1..n |-> 48 + (k % 10)]

\* Prefixes: '', '0', '254', '7', '07', '2547', '08', '2548'
NumberPrefixes ==
    { <<>>, <<48>>, <<50, 53, 52>>, <<55>>, <<48, 55>>, <<50, 53, 52, 55>>,
      <<48, 56>>, <<50, 53, 52, 56>> }

\* s with separators typed around it: '+', '-', a space and the
\* Arabic-Indic digit U+0663, none of which \d matches.
decorate(s) ==
    LET cut == IF Len(s) < 3 THEN Len(s) ELSE 3 IN
    <<43>> \o SubSeq(s, 1, cut) \o <<45>> \o SubSeq(s, cut + 1, Len(s))
    \o <<32, 1635>>

NumberInputs ==
    { p \o tailDigits(n) : p \in NumberPrefixes, n \in 0..MaxTail }
    \cup { decorate(p \o tailDigits(n)) : p \in NumberPrefixes, n \in 0..MaxTail }

\* '', '00100', 'AC-1', and fillers of 65, 66 and LongLen characters
AccountInputs ==
    { <<>>, <<48, 48, 49, 48, 48>>, <<65, 67, 45, 49>>,
      fill(57, LongLen - 35), fill(57, LongLen - 34), fill(57, LongLen) }

\* '', 'Acme', 'J' U+00F6 U+20AC, and fillers of LongLen - 1 and LongLen
BusinessInputs ==
    { <<>>, <<65, 99, 109, 101>>, <<74, 246, 8364>>,
      fill(66, LongLen - 1), fill(66, LongLen) }

\* What is typed into the form in the interactive specification.
FormNumberInputs ==
    { p \o tailDigits(n) : p \in NumberPrefixes, n \in {0, 5, 8} }
    \cup { tailDigits(6), decorate(tailDigits(6)),
           decorate(<<48, 55>> \o tailDigits(8)) }
FormAccountInputs == { <<>>, <<48, 48, 49, 48, 48>> }
FormBusinessInputs == { <<>>, <<65, 99, 109, 101>> }

\* Strings fed to the stepwise crc16ccitt: code units 0, '1', 0xFF, 0x100, 0xFFFF
CrcAlphabet == {0, 49, 255, 256, 65535}
CrcInputs == UNION { [1..n -> CrcAlphabet] : n \in 0..MaxCrcLen }

(***************************************************************************)
(* The form: React state, one render after every event.                    *)
(***************************************************************************)
neutralText == "Enter valid payment details to generate QR code"

crcIdle == str = <<>> /\ i = 0 /\ crc = crcInit /\ result = <<>>

\* The render of lines 174-175, 290-302, 308, 318 for the state given.
render(type, num, account, business, err) ==
    /\ shouldShowQR' = (num # <<>> /\ validateNumber(type, num))
    /\ generate(type, num, account, business)
    /\ qrShown' = (shouldShowQR' /\ qrValue' # <<>>)
    /\ placeholder' = IF shouldShowQR' /\ qrValue' # <<>> THEN null
                      ELSE IF err # null THEN err ELSE neutralText
    /\ disabled' = (~shouldShowQR' \/ qrValue' = <<>>)

Init ==
    /\ pc = "ui"
    /\ paymentType = "paybill"
    /\ number = <<>>
    /\ accountNumber = <<>>
    /\ businessName = <<>>
    /\ error = null
    /\ formattedNumber = <<>>
    /\ merchantInfo = <<>>
    /\ qrValue = <<>>
    /\ shouldShowQR = FALSE
    /\ qrShown = FALSE
    /\ placeholder = neutralText
    /\ disabled = TRUE
    /\ lastEvent = <<"mount">>
    /\ crcIdle

\* selectType without setNumber('').
selectType_keepsNumber(type) ==
    /\ pc = "ui"
    /\ paymentType' = type
    /\ accountNumber' = <<>>
    /\ error' = null
    /\ UNCHANGED <<number, businessName>>
    /\ render(type, number, <<>>, businessName, null)
    /\ lastEvent' = <<"select">>
    /\ UNCHANGED <<crcVars, pc>>

\* onClick of a payment-type button, lines 201-206
selectType(type) ==
    /\ pc = "ui"
    /\ paymentType' = type
    /\ number' = <<>>
    /\ accountNumber' = <<>>
    /\ error' = null
    /\ UNCHANGED businessName
    /\ render(type, <<>>, <<>>, businessName, null)
    /\ lastEvent' = <<"select">>
    /\ UNCHANGED <<crcVars, pc>>

\* handleNumberChange, lines 149-153
handleNumberChange(value) ==
    /\ pc = "ui"
    /\ number' = value
    /\ error' = null
    /\ UNCHANGED <<paymentType, accountNumber, businessName>>
    /\ render(paymentType, value, accountNumber, businessName, null)
    /\ lastEvent' = <<"number">>
    /\ UNCHANGED <<crcVars, pc>>

\* handleAccountNumberChange, lines 155-159; the input exists for paybill
\* only (line 250).
handleAccountNumberChange(value) ==
    /\ pc = "ui"
    /\ paymentType = "paybill"
    /\ accountNumber' = value
    /\ error' = null
    /\ UNCHANGED <<paymentType, number, businessName>>
    /\ render(paymentType, number, value, businessName, null)
    /\ lastEvent' = <<"account">>
    /\ UNCHANGED <<crcVars, pc>>

\* onChange of the business-name input, line 275
handleBusinessNameChange(value) ==
    /\ pc = "ui"
    /\ businessName' = value
    /\ UNCHANGED <<paymentType, number, accountNumber, error>>
    /\ render(paymentType, number, accountNumber, value, error)
    /\ lastEvent' = <<"business">>
    /\ UNCHANGED <<crcVars, pc>>

\* downloadQR, lines 105-139. The svg is in the DOM exactly when the QR
\* branch was rendered; `threw` is whether a DOM call in the try block threw.
downloadQR(threw) ==
    /\ IF ~validateNumber(paymentType, number)
       THEN /\ error' = "Please enter a valid number before downloading"
            /\ lastEvent' = <<"download", "invalid">>
       ELSE IF ~qrShown
       THEN /\ error' = "Error generating QR code"
            /\ lastEvent' = <<"download", "no svg">>
       ELSE IF threw
       THEN /\ error' = "Error downloading QR code"
            /\ lastEvent' = <<"download", "threw">>
       ELSE /\ error' = error
            /\ lastEvent' = <<"download", "mpesa-qr-", paymentType, "-",
                              formatNumber(paymentType, number), ".png">>
    /\ UNCHANGED <<paymentType, number, accountNumber, businessName>>
    /\ render(paymentType, number, accountNumber, businessName, error')

\* printQR, lines 141-147
printQR ==
    /\ IF ~validateNumber(paymentType, number)
       THEN /\ error' = "Please enter a valid number before printing"
            /\ lastEvent' = <<"print", "invalid">>
       ELSE /\ error' = error
            /\ lastEvent' = <<"print", "window.print">>
    /\ UNCHANGED <<paymentType, number, accountNumber, businessName>>
    /\ render(paymentType, number, accountNumber, businessName, error')

\* A click on the Download button, lines 306-308: a disabled button fires
\* no click event.
clickDownload(threw) ==
    /\ pc = "ui"
    /\ ~disabled
    /\ downloadQR(threw)
    /\ UNCHANGED <<crcVars, pc>>

\* A click on the Print button, lines 316-318
clickPrint ==
    /\ pc = "ui"
    /\ ~disabled
    /\ printQR
    /\ UNCHANGED <<crcVars, pc>>

Next ==
    \/ \E type \in PaymentTypes : selectType(type)
    \/ \E value \in FormNumberInputs : handleNumberChange(value)
    \/ \E value \in FormAccountInputs : handleAccountNumberChange(value)
    \/ \E value \in FormBusinessInputs : handleBusinessNameChange(value)
    \/ \E threw \in BOOLEAN : clickDownload(threw)
    \/ clickPrint

Spec == Init /\ [][Next]_vars

(***************************************************************************)
(* generateQRValue as a function of the four values it reads.              *)
(***************************************************************************)
InitGen ==
    /\ pc = "input"
    /\ paymentType \in PaymentTypes
    /\ number \in NumberInputs
    /\ accountNumber \in AccountInputs
    /\ businessName \in BusinessInputs
    /\ error = null
    /\ formattedNumber = <<>>
    /\ merchantInfo = <<>>
    /\ qrValue = <<>>
    /\ shouldShowQR = FALSE
    /\ qrShown = FALSE
    /\ placeholder = neutralText
    /\ disabled = TRUE
    /\ lastEvent = <<"mount">>
    /\ crcIdle

\* One call of generateQRValue, lines 48-103
callGenerate ==
    /\ pc = "input"
    /\ pc' = "returned"
    /\ generate(paymentType, number, accountNumber, businessName)
    /\ UNCHANGED <<formVars, viewVars, crcVars>>

NextGen == callGenerate

SpecGen == InitGen /\ [][NextGen]_vars

(***************************************************************************)
(* crc16ccitt, one character of the outer loop at a time.                  *)
(***************************************************************************)
InitCrc ==
    /\ pc = "loop"
    /\ str \in CrcInputs
    /\ i = 0
    /\ crc = crcInit
    /\ result = <<>>
    /\ paymentType = "paybill"
    /\ number = <<>>
    /\ accountNumber = <<>>
    /\ businessName = <<>>
    /\ error = null
    /\ formattedNumber = <<>>
    /\ merchantInfo = <<>>
    /\ qrValue = <<>>
    /\ shouldShowQR = FALSE
    /\ qrShown = FALSE
    /\ placeholder = neutralText
    /\ disabled = TRUE
    /\ lastEvent = <<"mount">>

\* One pass of the outer loop, lines 6-16
crcIterate ==
    /\ pc = "loop"
    /\ i < Len(str)
    /\ crc' = charStep(crc, str[i + 1])
    /\ i' = i + 1
    /\ UNCHANGED <<str, result, pc, formVars, genVars, viewVars>>

\* The loop exit and the return of line 18
crcReturn ==
    /\ pc = "loop"
    /\ i >= Len(str)
    /\ result' = formatCrc(crc)
    /\ pc' = "done"
    /\ UNCHANGED <<str, i, crc, formVars, genVars, viewVars>>

NextCrc == crcIterate \/ crcReturn

SpecCrc == InitCrc /\ [][NextCrc]_vars

(***************************************************************************)
(* Vocabulary of the properties: what the documentation calls a digit      *)
(* string, an accepted number, a normalized number and a TLV field.        *)
(***************************************************************************)
HexUpper == (48..57) \cup (65..70)

\* The digits left after every non-digit character is removed
digitsOf(s) == SelectSeq(s, LAMBDA c : c \in 48..57)

\* The last n characters of s
lastChars(s, n) == SubSeq(s, Len(s) - n + 1, Len(s))

\* The per-type pattern of an accepted number, on its digits d
accepted(type, d) ==
    \/ type = "paybill" /\ Len(d) = 6
    \/ type = "till" /\ Len(d) \in {5, 6}
    \/ type = "phone" /\ Len(d) = 12 /\ SubSeq(d, 1, 4) = <<50, 53, 52, 55>>
    \/ type = "phone" /\ Len(d) = 10 /\ SubSeq(d, 1, 2) = <<48, 55>>
    \/ type = "phone" /\ Len(d) = 9 /\ SubSeq(d, 1, 1) = <<55>>

\* The normalized form of an accepted number with digits d
normalized(type, d) ==
    IF type = "phone" THEN <<50, 53, 52>> \o lastChars(d, 9) ELSE d

\* The sub-tag of the number field: 01 paybill, 03 till, 04 phone
subTagOf(type) ==
    IF type = "paybill" THEN <<48, 49>>
    ELSE IF type = "till" THEN <<48, 51>> ELSE <<48, 52>>

allDigits(s) == \A k \in 1..Len(s) : s[k] \in 48..57

RECURSIVE decimalValue(_)
\* The number a string of decimal digits denotes
decimalValue(s) ==
    IF s = <<>> THEN 0
    ELSE 10 * decimalValue(SubSeq(s, 1, Len(s) - 1)) + (s[Len(s)] - 48)

\* n < 100 written with exactly two decimal digits
twoDigits(n) == <<48 + (n \div 10), 48 + (n % 10)>>

RECURSIVE tlvSplit(_)
\* s split into tag(2) + length(2) + value fields: the sequence of
\* <<tag, value>> pairs, or <<"malformed">> when s is not such a sequence.
tlvSplit(s) ==
    IF s = <<>> THEN <<>>
    ELSE IF Len(s) < 4 \/ ~allDigits(SubSeq(s, 3, 4)) THEN <<"malformed">>
    ELSE LET n == decimalValue(SubSeq(s, 3, 4)) IN
         IF Len(s) < 4 + n THEN <<"malformed">>
         ELSE LET rest == tlvSplit(SubSeq(s, 5 + n, Len(s))) IN
              IF rest = <<"malformed">> THEN rest
              ELSE <<<<SubSeq(s, 1, 2), SubSeq(s, 5, 4 + n)>>>> \o rest

tagsOf(fields) == [k \in 1..Len(fields) |-> fields[k][1]]

returned == pc = "returned" /\ qrValue # <<>>

(***************************************************************************)
(* Properties.                                                             *)
(***************************************************************************)

\* C1: whenever generateQRValue returns a non-empty payload, its last 4
\* characters are crc16ccitt of the payload without them, and that prefix
\* ends with the header '6304'.
C1_ChecksumPlacement ==
    returned =>
        /\ Len(qrValue) >= 8
        /\ LET prefix == SubSeq(qrValue, 1, Len(qrValue) - 4) IN
           /\ lastChars(qrValue, 4) = crc16ccitt(prefix)
           /\ lastChars(prefix, 4) = <<54, 51, 48, 52>>

\* A phone payload with a non-ASCII business name has been returned.
C1_Witness ==
    /\ returned
    /\ paymentType = "phone"
    /\ businessName = <<74, 246, 8364>>

\* C2: generateQRValue returns a payload if and only if the digits of the
\* number match the pattern of the payment type, whatever the account number
\* and the business name are.
C2_PayloadIffAccepted ==
    pc = "returned" =>
        (qrValue # <<>> <=> accepted(paymentType, digitsOf(number)))

\* A payload has been returned for an accepted number typed with separators,
\* with an account number and a business name of LongLen characters.
C2_Witness ==
    /\ returned
    /\ number # digitsOf(number)
    /\ Len(accountNumber) = LongLen
    /\ Len(businessName) = LongLen

\* C3: every payload splits into fields with tags 00, 01, 26, 53, 58, (59,)
\* 63 whose declared two-digit lengths equal the lengths of their values,
\* and the value of tag 26 splits into sub-fields 00, 01/03/04, (02) in the
\* same way.
C3_TlvLengths ==
    returned =>
        LET top == tlvSplit(qrValue) IN
        /\ top # <<"malformed">>
        /\ tagsOf(top) =
             <<<<48, 48>>, <<48, 49>>, <<50, 54>>, <<53, 51>>, <<53, 56>>>>
             \o (IF businessName # <<>> THEN <<<<53, 57>>>> ELSE <<>>)
             \o <<<<54, 51>>>>
        /\ LET nested == tlvSplit(top[3][2]) IN
           /\ nested # <<"malformed">>
           /\ tagsOf(nested) =
                <<<<48, 48>>, subTagOf(paymentType)>>
                \o (IF paymentType = "paybill" /\ accountNumber # <<>>
                    THEN <<<<48, 50>>>> ELSE <<>>)

\* The end-to-end scenario: paybill '123456', account '00100', name 'Acme'.
scenario ==
    /\ pc = "returned"
    /\ paymentType = "paybill"
    /\ number = <<49, 50, 51, 52, 53, 54>>
    /\ accountNumber = <<48, 48, 49, 48, 48>>
    /\ businessName = <<65, 99, 109, 101>>

\* '0014A0000006770101110106123456020500100'
scenarioTemplate ==
    <<48, 48, 49, 52, 65, 48, 48, 48, 48, 48, 48, 54, 55, 55, 48, 49, 48, 49,
      49, 49, 48, 49, 48, 54, 49, 50, 51, 52, 53, 54, 48, 50, 48, 53, 48, 48,
      49, 48, 48>>

\* '5303KES5802KE5904Acme6304'
scenarioTail ==
    <<53, 51, 48, 51, 75, 69, 83, 53, 56, 48, 50, 75, 69, 53, 57, 48, 52, 65,
      99, 109, 101, 54, 51, 48, 52>>

C5_NormalizationIdempotent ==
    ( /\ pc = "returned"
      /\ paymentType = "phone"
      /\ accepted("phone", digitsOf(number)) ) =>
        /\ formatNumber("phone", formattedNumber) = formattedNumber
        /\ formattedNumber = <<50, 53, 52>> \o lastChars(digitsOf(number), 9)

\* The trunk form '07...' typed with separators has been formatted.
C5_Witness ==
    /\ pc = "returned"
    /\ paymentType = "phone"
    /\ number # digitsOf(number)
    /\ Len(digitsOf(number)) = 10
    /\ SubSeq(digitsOf(number), 1, 2) = <<48, 55>>
    /\ formattedNumber = <<50, 53, 52, 55>> \o tailDigits(8)

\* C6: in every payload the tag-26 template is the GUID field, then one
\* number field with sub-tag 01 (paybill), 03 (till) or 04 (phone) holding the
\* normalized number, and after it an 02 field ending in the raw account
\* number exactly when the type is paybill and the account number is
\* non-empty; the template sits right after the header of tag 26.
C6_TemplateLayout ==
    returned =>
        LET norm == normalized(paymentType, digitsOf(number))
            rest == SubSeq(merchantInfo, 25 + Len(norm), Len(merchantInfo))
            at == IF Len(merchantInfo) < 100 THEN 15 ELSE 16
        IN
        /\ SubSeq(qrValue, 11, 12) = <<50, 54>>
        /\ SubSeq(qrValue, at, at + Len(merchantInfo) - 1) = merchantInfo
        /\ SubSeq(merchantInfo, 1, 20) =
             <<48, 48, 49, 52, 65, 48, 48, 48, 48, 48, 48, 54, 55, 55, 48, 49,
               48, 49, 49, 49>>
        /\ SubSeq(merchantInfo, 21, 22) = subTagOf(paymentType)
        /\ SubSeq(merchantInfo, 23, 24) = twoDigits(Len(norm))
        /\ SubSeq(merchantInfo, 25, 24 + Len(norm)) = norm
        /\ (rest # <<>>) <=> (paymentType = "paybill" /\ accountNumber # <<>>)
        /\ rest # <<>> =>
             LET digits == SubSeq(rest, 3, Len(rest) - Len(accountNumber)) IN
             /\ Len(rest) >= 4 + Len(accountNumber)
             /\ SubSeq(rest, 1, 2) = <<48, 50>>
             /\ allDigits(digits)
             /\ decimalValue(digits) = Len(accountNumber)
             /\ lastChars(rest, Len(accountNumber)) = accountNumber

\* A till payload has been returned although an account number was given.
C6_Witness ==
    /\ returned
    /\ paymentType = "till"
    /\ accountNumber = <<48, 48, 49, 48, 48>>

\* C7: in every payload each length field has exactly two decimal digits and
\* each field value, the nested value of tag 26 included, has at most 99
\* characters.
C7_TwoDigitLengths ==
    returned =>
        /\ Len(merchantInfo) <= 99
        /\ Len(businessName) <= 99
        /\ (paymentType = "paybill" => Len(accountNumber) <= 99)
        /\ decimalValue(SubSeq(qrValue, 13, 14)) = Len(merchantInfo)
        /\ SubSeq(qrValue, 15, 14 + Len(merchantInfo)) = merchantInfo

\* C8: the register is within 0..0xFFFF after each character, and the
\* returned string has exactly 4 characters, each in 0-9 or A-F.
C8_FourHexChars ==
    /\ crc \in 0..65535
    /\ pc = "done" =>
         /\ Len(result) = 4
         /\ \A k \in 1..4 : result[k] \in HexUpper

\* crc16ccitt has returned for a string with a code unit above 255, and the
\* result needed padding.
C8_Witness ==
    /\ pc = "done"
    /\ Len(str) >= 2
    /\ \E k \in 1..Len(str) : str[k] > 255
    /\ crc < 4096

\* C9: an empty number shows the neutral placeholder and no error; a
\* non-empty number that is not accepted shows an error message; neither
\* produces a payload.
C9_FailuresDistinguishable ==
    pc = "ui" =>
        /\ number = <<>> =>
             (qrValue = <<>> /\ error = null /\ placeholder = neutralText)
        /\ (number # <<>> /\ ~accepted(paymentType, digitsOf(number))) =>
             (qrValue = <<>> /\ error # null /\ placeholder = error)

C10_State ==
    /\ qrShown <=> (number # <<>> /\ validateNumber(paymentType, number))
    /\ disabled <=> ~qrShown
    /\ lastEvent = <<"select">> =>
         (number = <<>> /\ accountNumber = <<>> /\ error = null /\ ~qrShown)
    /\ lastEvent \notin {<<"download", "invalid">>, <<"print", "invalid">>}
    /\ error \notin {"Please enter a valid number before downloading",
                     "Please enter a valid number before printing"}

\* C10: after any sequence of form events the QR is shown and the buttons
\* are enabled exactly when the number is non-empty and passes
\* validateNumber; right after a type selection the number, the account
\* number and the error are cleared and no QR is shown, the business name is
\* what it was before the selection, and the invalid-number branches of
\* downloadQR and printQR are never taken.
C10_DisplayFollowsValidity ==
    /\ []C10_State
    /\ [][lastEvent' = <<"select">> => businessName' = businessName]_vars

\* The phone type has been selected while a business name was set.
C10_Witness ==
    /\ lastEvent = <<"select">>
    /\ paymentType = "phone"
    /\ businessName # <<>>

====
